---- MODULE Spec2Model ----
(***************************************************************************)
(* Pyrogram media transfer: the file-id decoding and the download queue of *)
(* Client.download_media, and the upload retry loop of                     *)
(* Client.send_video_note.                                                 *)
(***************************************************************************)
EXTENDS Integers, Sequences, FiniteSets, TLC

VARIABLES
    obj,             \* codec: the media object a file id or a name is made from
    fid,             \* codec: the file id handed to download_media
    res,             \* codec: outcome of the decode step for fid
    pc,              \* download: position of each download_media call
    block,           \* download: the block argument of each call
    myjob,           \* download: the packet each call put on the queue
    ret,             \* download: what each call returned or raised
    download_queue,  \* download: self.download_queue (packets, oldest first)
    packets,         \* download: every packet created, by creation order
    done,            \* download: the Event of each packet
    path,            \* download: the one-slot list path of each packet
    jstate,          \* download: worker-side state of each packet
    current,         \* download: the packet the worker holds (0: none)
    chunks,          \* download: chunks the worker fetched for current
    stop,            \* download: the stop flag: "no", "job" or "global"
    finished,        \* download: packets in the order they became terminal
    cancel_flag,     \* download: packets whose cancellation was asked while queued
    up               \* upload: one record per send_video_note call

codecVars == <<obj, fid, res>>
dlVars == <<pc, block, myjob, ret, download_queue, packets, done, path, jstate,
            current, chunks, stop, finished, cancel_flag>>
upVars == <<up>>
vars == <<obj, fid, res, pc, block, myjob, ret, download_queue, packets, done, path,
          jstate, current, chunks, stop, finished, cancel_flag, up>>

None == "None"

(***************************************************************************)
(* struct: little-endian fixed-width fields                                *)
(***************************************************************************)
IntSize == 4
LongSize == 8

\* the format strings of the three layouts, as the widths of their fields
FmtPhotoLike == <<IntSize, IntSize, LongSize, LongSize, LongSize,
                  IntSize, IntSize, IntSize, LongSize, IntSize>>
FmtDocThumb == <<IntSize, IntSize, LongSize, LongSize, LongSize,
                 IntSize, IntSize, IntSize, IntSize>>
FmtDocPlain == <<IntSize, IntSize, LongSize, LongSize>>

RECURSIVE calcsize(_)
calcsize(fmt) == IF fmt = <<>> THEN 0 ELSE Head(fmt) + calcsize(Tail(fmt))

\* byte offset (0-based) of field k (1-based) of a format
RECURSIVE FieldOffset(_, _)
FieldOffset(fmt, k) == IF k = 1 THEN 0 ELSE fmt[k - 1] + FieldOffset(fmt, k - 1)

\* a signed 32-bit little-endian integer at 0-based offset off
Int32LE(b, off) ==
    LET b0 == b[off + 1]
        b1 == b[off + 2]
        b2 == b[off + 3]
        b3 == b[off + 4]
        top == IF b3 >= 128 THEN b3 - 256 ELSE b3
    IN  b0 + 256 * b1 + 65536 * b2 + 16777216 * top

\* a 64-bit field is kept as its 8 little-endian bytes: equality is exact
Int64LE(b, off) == SubSeq(b, off + 1, off + LongSize)

UnpackField(fmt, b, k) ==
    IF fmt[k] = IntSize THEN Int32LE(b, FieldOffset(fmt, k))
    ELSE Int64LE(b, FieldOffset(fmt, k))

\* an unpack that reads the leading calcsize bytes and ignores the rest
unpack_from(fmt, b) ==
    IF Len(b) < calcsize(fmt) THEN [err |-> "struct.error", v |-> <<>>]
    ELSE [err |-> "none", v |-> [k \in 1..Len(fmt) |-> UnpackField(fmt, b, k)]]

\* struct.unpack: struct.error unless the buffer has exactly calcsize bytes
unpack(fmt, b) ==
    IF Len(b) # calcsize(fmt) THEN [err |-> "struct.error", v |-> <<>>]
    ELSE [err |-> "none", v |-> [k \in 1..Len(fmt) |-> UnpackField(fmt, b, k)]]

(***************************************************************************)
(* utils.decode: the outer framing of a file id string.  A file id is a    *)
(* record of whether its outer encoding is valid and the bytes it frames.  *)
(***************************************************************************)
utils_decode(s) ==
    IF s.framed THEN [err |-> "none", bytes |-> s.data]
    ELSE [err |-> "binascii.Error", bytes |-> <<>>]

ThumbTypes == {0, 2, 14}
PlainTypes == {3, 4, 5, 8, 9, 10, 13}
KnownTypes == {1} \cup ThumbTypes \cup PlainTypes

MaxCodePoint == 1114111

\* chr(): ValueError outside range(0x110000)
chr(n) == IF n < 0 \/ n > MaxCodePoint THEN [err |-> "ValueError", c |-> 0]
          ELSE [err |-> "none", c |-> n]

\* an exception: its class, its message, and what the message is formatted with
Raised(kind, msg, arg) == [err |-> kind, msg |-> msg, arg |-> arg, data |-> None]
Decoded(data) == [err |-> "none", msg |-> "", arg |-> "nothing", data |-> data]

\* media_type = decoded[0]: the first byte of the blob
MediaTypeOf(decoded) == decoded[1]

\* the photo layout with only the low byte of size_type compared
ParsePhotoLikeLowByte(media_type, decoded) ==
    LET u == unpack(FmtPhotoLike, decoded) IN
    IF u.err # "none" THEN Raised("FileIdInvalid", "", "nothing")
    ELSE Decoded([media_type |-> media_type, layout |-> "photo_like",
                  dc_id |-> u.v[2], volume_id |-> u.v[5],
                  peer_id |-> u.v[7], peer_access_hash |-> u.v[9],
                  local_id |-> u.v[10], is_big |-> (u.v[6] % 256 = 3)])

ParsePhotoLike(media_type, decoded) ==
    LET u == unpack(FmtPhotoLike, decoded) IN
    IF u.err # "none" THEN Raised("FileIdInvalid", "", "nothing")
    ELSE Decoded([media_type |-> media_type, layout |-> "photo_like",
                  dc_id |-> u.v[2], volume_id |-> u.v[5],
                  peer_id |-> u.v[7], peer_access_hash |-> u.v[9],
                  local_id |-> u.v[10], is_big |-> (u.v[6] = 3)])

ParseDocThumb(media_type, decoded) ==
    LET u == unpack(FmtDocThumb, decoded) IN
    IF u.err # "none" THEN Raised("FileIdInvalid", "", "nothing")
    ELSE IF chr(u.v[8]).err # "none"
         THEN Raised("ValueError", "chr() arg not in range", "nothing")
    ELSE Decoded([media_type |-> media_type, layout |-> "document_thumb",
                  dc_id |-> u.v[2], document_id |-> u.v[3],
                  access_hash |-> u.v[4], thumb_size |-> chr(u.v[8]).c])

\* the plain layout read with document id and access hash exchanged
ParseDocPlainSwapped(media_type, decoded) ==
    LET u == unpack(FmtDocPlain, decoded) IN
    IF u.err # "none" THEN Raised("FileIdInvalid", "", "nothing")
    ELSE Decoded([media_type |-> media_type, layout |-> "document_plain",
                  dc_id |-> u.v[2], document_id |-> u.v[4],
                  access_hash |-> u.v[3]])

ParseDocPlain(media_type, decoded) ==
    LET u == unpack(FmtDocPlain, decoded) IN
    IF u.err # "none" THEN Raised("FileIdInvalid", "", "nothing")
    ELSE Decoded([media_type |-> media_type, layout |-> "document_plain",
                  dc_id |-> u.v[2], document_id |-> u.v[3],
                  access_hash |-> u.v[4]])

\* download_media, the try block: the outcome of decoding file_id_str
ParseFileId(file_id_str) ==
    LET d == utils_decode(file_id_str) IN
    IF d.err # "none" THEN Raised("FileIdInvalid", "", "nothing")
    ELSE IF Len(d.bytes) = 0 THEN Raised("IndexError", "index out of range", "nothing")
    ELSE LET media_type == MediaTypeOf(d.bytes) IN
         IF media_type = 1 THEN ParsePhotoLike(media_type, d.bytes)
         ELSE IF media_type \in ThumbTypes THEN ParseDocThumb(media_type, d.bytes)
         ELSE IF media_type \in PlainTypes THEN ParseDocPlain(media_type, d.bytes)
         ELSE Raised("ValueError", "Unknown media type", "file_id_str")

(***************************************************************************)
(* The file ids the decode step is applied to                              *)
(***************************************************************************)
MaxTagByte == 15

\* bytes 2..4 of the blob: the upper bytes of the 32-bit tag
TagHighBytes == {<<0, 0, 0>>, <<1, 0, 0>>, <<255, 255, 255>>}
LowFills == {0, 3, 120, 255}
HighFills == {0, 255}
LayoutLens == {calcsize(FmtPhotoLike), calcsize(FmtDocThumb), calcsize(FmtDocPlain)}
BlobLens == {0, 1, 3} \cup LayoutLens \cup {n - 1 : n \in LayoutLens}
                \cup {n + 1 : n \in LayoutLens} \cup {IntSize}

Blob(t, hi, n, lo, hf) ==
    [i \in 1..n |-> IF i = 1 THEN t
                    ELSE IF i <= IntSize THEN hi[i - 1]
                    ELSE IF (i - 1) % IntSize = 0 THEN lo ELSE hf]

FileIds ==
    {[framed |-> f, data |-> Blob(t, hi, n, lo, hf)] :
        f \in BOOLEAN, t \in 0..MaxTagByte, hi \in TagHighBytes,
        n \in BlobLens, lo \in LowFills, hf \in HighFills}

UnframedId == [framed |-> FALSE, data |-> <<>>]

NotYet == [err |-> "pending", msg |-> "", arg |-> "nothing", data |-> None]

DLIdle ==
    /\ pc = <<>> /\ block = <<>> /\ myjob = <<>> /\ ret = <<>>
    /\ download_queue = <<>> /\ packets = <<>> /\ done = <<>> /\ path = <<>>
    /\ jstate = <<>> /\ current = 0 /\ chunks = 0 /\ stop = "no"
    /\ finished = <<>> /\ cancel_flag = {}

UpIdle == up = <<>>

NoObject == [kind |-> "none"]

CodecInit ==
    /\ obj = NoObject
    /\ fid \in FileIds
    /\ res = NotYet
    /\ DLIdle
    /\ UpIdle

\* the decode step of one download_media call
DecodeStep ==
    /\ res.err = "pending"
    /\ res' = ParseFileId(fid)
    /\ UNCHANGED <<obj, fid, dlVars, upVars>>

CodecNext == DecodeStep

SpecCodec == CodecInit /\ [][CodecNext]_vars

(***************************************************************************)
(* Photo._parse and Sticker._parse: the file ids this client encodes       *)
(***************************************************************************)
\* struct.pack of one "<i" field: the four bytes of n, lowest first
PackInt32(n) ==
    LET b0 == n % 256
        n1 == (n - b0) \div 256
        b1 == n1 % 256
        n2 == (n1 - b1) \div 256
        b2 == n2 % 256
        n3 == (n2 - b2) \div 256
    IN  <<b0, b1, b2, n3 % 256>>

\* struct.pack of one "<q" field, held as its 8 little-endian bytes
PackInt64(q) == q

RECURSIVE pack(_, _)
pack(fmt, values) ==
    IF fmt = <<>> THEN <<>>
    ELSE (IF Head(fmt) = IntSize THEN PackInt32(Head(values)) ELSE PackInt64(Head(values)))
             \o pack(Tail(fmt), Tail(values))

\* utils.encode: the outer framing of the packed bytes
utils_encode(b) == [framed |-> TRUE, data |-> b]

\* ord() of a PhotoSize.type
SizeTypes == {"s", "m", "x", "y", "w"}
ord(ch) == CASE ch = "s" -> 115 [] ch = "m" -> 109 [] ch = "x" -> 120
             [] ch = "y" -> 121 [] ch = "w" -> 119

\* the formats the encoders pack with: "<iiqqqiiii" and "<iiqq"
PhotoPackFmt == <<IntSize, IntSize, LongSize, LongSize, LongSize,
                  IntSize, IntSize, IntSize, IntSize>>
StickerPackFmt == <<IntSize, IntSize, LongSize, LongSize>>

\* Photo._parse: file_id of a types.Photo, from its biggest size
PhotoFileId(photo) ==
    utils_encode(pack(PhotoPackFmt,
        <<2, photo.dc_id, photo.id, photo.access_hash, photo.volume_id, 1, 2,
          ord(photo.type), photo.local_id>>))

\* Sticker._parse: file_id of a types.Document
StickerFileId(sticker) ==
    utils_encode(pack(StickerPackFmt,
        <<8, sticker.dc_id, sticker.id, sticker.access_hash>>))

MinInt32 == -2147483647 - 1
Int32Samples == {0, 1, 4, 255, 256, 65536 + 3, 2147483647, -1, -256, MinInt32}
SmallInt32Samples == {1, 4, 256 + 7, -1}
Int64Samples == {<<0, 0, 0, 0, 0, 0, 0, 0>>, <<1, 2, 3, 4, 5, 6, 7, 8>>,
                 <<255, 255, 255, 255, 255, 255, 255, 255>>,
                 <<0, 0, 0, 0, 0, 0, 0, 128>>}

Photos ==
    {[kind |-> "photo", dc_id |-> d, id |-> i, access_hash |-> h, volume_id |-> v,
      type |-> t, local_id |-> l] :
        d \in Int32Samples, i \in Int64Samples, h \in Int64Samples,
        v \in {<<9, 0, 0, 0, 0, 0, 0, 0>>}, t \in SizeTypes, l \in SmallInt32Samples}

Stickers ==
    {[kind |-> "sticker", dc_id |-> d, id |-> i, access_hash |-> h] :
        d \in Int32Samples, i \in Int64Samples, h \in Int64Samples}

RoundTripInit ==
    /\ obj \in Photos \cup Stickers
    /\ fid = UnframedId
    /\ res = NotYet
    /\ DLIdle
    /\ UpIdle

\* Photo._parse / Sticker._parse give the object its file_id
EncodeStep ==
    /\ fid = UnframedId
    /\ fid' = IF obj.kind = "photo" THEN PhotoFileId(obj) ELSE StickerFileId(obj)
    /\ UNCHANGED <<obj, res, dlVars, upVars>>

\* download_media(photo.file_id) / download_media(sticker.file_id): the decode
DecodeEncoded ==
    /\ fid # UnframedId
    /\ DecodeStep

RoundTripNext == EncodeStep \/ DecodeEncoded

SpecRoundTrip == RoundTripInit /\ [][RoundTripNext]_vars

(***************************************************************************)
(* download_media: from the message to the packet on the download queue    *)
(***************************************************************************)
NumCalls == 2
NumChunks == 1

\* the invocations of download_media, each by a thread of its own
Callers == 1..NumCalls

DEFAULT_DOWNLOAD_DIR == "downloads/"

StickerId == [framed |-> TRUE, data |-> Blob(8, <<0, 0, 0>>, calcsize(FmtDocPlain), 3, 0)]
PhotoId == [framed |-> TRUE, data |-> Blob(2, <<0, 0, 0>>, calcsize(FmtDocThumb), 120, 0)]
UnknownTypeId == [framed |-> TRUE, data |-> Blob(6, <<0, 0, 0>>, calcsize(FmtDocPlain), 0, 0)]

\* a Message without media, a file id string, or a media object
NoMedia == [kind |-> "message", file_id |-> None, file_name |-> None,
            mime_type |-> None, date |-> None]
IdString(f) == [kind |-> "str", file_id |-> f, file_name |-> None,
                mime_type |-> None, date |-> None]
MediaObject(f, name, mime) == [kind |-> "media", file_id |-> f, file_name |-> name,
                               mime_type |-> mime, date |-> "date"]

Messages ==
    {NoMedia, IdString(UnframedId), IdString(UnknownTypeId),
     MediaObject(PhotoId, "", None)}

\* the file_name argument after os.path.split: (directory, file_name)
FileNameArgs == {[dir |-> "", name |-> ""]}

\* BaseClient.guess_extension
guess_extension(mime_type) ==
    IF mime_type = "image/webp" THEN ".webp"
    ELSE IF mime_type = "video/mp4" THEN ".mp4"
    ELSE None

\* BaseClient.MEDIA_TYPE_ID
MEDIA_TYPE_ID(t) ==
    CASE t = 0 -> "photo_thumbnail" [] t = 1 -> "chat_photo" [] t = 2 -> "photo"
      [] t = 3 -> "voice" [] t = 4 -> "video" [] t = 5 -> "document"
      [] t = 8 -> "sticker" [] t = 9 -> "audio" [] t = 10 -> "animation"
      [] t = 13 -> "video_note" [] t = 14 -> "document_thumbnail"

Or(a, b) == IF a = None \/ a = "" THEN b ELSE a

\* the extension with the MIME guess taking precedence for every media type
ExtensionGuessFirst(media_type, mime_type) ==
    LET guessed_extension == guess_extension(mime_type) IN
    IF media_type \in {0, 1, 2, 14} THEN Or(guessed_extension, ".jpg")
    ELSE IF media_type = 3 THEN Or(guessed_extension, ".ogg")
    ELSE IF media_type \in {4, 10, 13} THEN Or(guessed_extension, ".mp4")
    ELSE IF media_type = 5 THEN Or(guessed_extension, ".zip")
    ELSE IF media_type = 8 THEN Or(guessed_extension, ".webp")
    ELSE IF media_type = 9 THEN Or(guessed_extension, ".mp3")
    ELSE ".unknown"

Extension(media_type, mime_type) ==
    LET guessed_extension == guess_extension(mime_type) IN
    IF media_type \in {0, 1, 2, 14} THEN ".jpg"
    ELSE IF media_type = 3 THEN Or(guessed_extension, ".ogg")
    ELSE IF media_type \in {4, 10, 13} THEN Or(guessed_extension, ".mp4")
    ELSE IF media_type = 5 THEN Or(guessed_extension, ".zip")
    ELSE IF media_type = 8 THEN Or(guessed_extension, ".webp")
    ELSE IF media_type = 9 THEN Or(guessed_extension, ".mp3")
    ELSE ".unknown"

\* the parts of "{}_{}_{}{}".format(...) other than the random id
Format(label, stamp, extension) == <<label, stamp, extension>>
GivenName(name) == <<name, "", "">>

\* the name of the media object tried before the name the caller gave
FileNameMediaFirst(arg_name, media, media_type, rnd) ==
    LET file_name == Or(Or(media.file_name, arg_name), "") IN
    IF file_name # "" THEN [synth |-> FALSE, name |-> GivenName(file_name), rnd |-> 0]
    ELSE [synth |-> TRUE,
          name |-> Format(MEDIA_TYPE_ID(media_type), Or(media.date, "now"),
                          Extension(media_type, media.mime_type)),
          rnd |-> rnd]

\* file_name = file_name or data.file_name or "", then the synthesized name
FileName(arg_name, media, media_type, rnd) ==
    LET file_name == Or(Or(arg_name, media.file_name), "") IN
    IF file_name # "" THEN [synth |-> FALSE, name |-> GivenName(file_name), rnd |-> 0]
    ELSE [synth |-> TRUE,
          name |-> Format(MEDIA_TYPE_ID(media_type), Or(media.date, "now"),
                          Extension(media_type, media.mime_type)),
          rnd |-> rnd]

Directory(arg_dir) == Or(arg_dir, DEFAULT_DOWNLOAD_DIR)

\* the decode of the file id of every message that has one
DecodeOf ==
    [m \in {x \in Messages : x.kind # "message"} |-> ParseFileId(m.file_id)]

\* what download_media raises before the queue is touched, or "none"
PreError(message) ==
    IF message.kind = "message" THEN "ValueError"
    ELSE DecodeOf[message].err

NoName == [synth |-> FALSE, name |-> <<"", "", "">>, rnd |-> 0]

\* a path slot holding None, "" or a path
NonePath == [is |-> "None", dir |-> "", file |-> NoName]
EmptyStringPath == [is |-> "str", dir |-> "", file |-> NoName]

\* path = [None]
NewPath == NonePath

NewPacket(c, message, arg, n) ==
    LET data == DecodeOf[message].data IN
    [caller |-> c, data |-> data, directory |-> Directory(arg.dir),
     file_name |-> FileName(arg.name, message, data.media_type, n)]

(***************************************************************************)
(* download_media, lines 187-218 alone: the name of the file to write      *)
(***************************************************************************)
MimeTypes == {None, "image/webp", "video/mp4", "application/x-unknown"}
MediaFileNames == {None, "", "song.mp3"}
MediaDates == {None, "2020-01-01_00-00-00"}
\* the file_name argument, as its components between the "/": the default
\* "downloads/", a bare name, a name in a directory, a directory
ArgPaths == {<<"downloads", "">>, <<"given.bin">>, <<"dir", "given.bin">>,
             <<"dir", "">>}

\* os.path.split: what is before the last "/" and what is after it
os_path_split(p) == [dir |-> SubSeq(p, 1, Len(p) - 1), name |-> p[Len(p)]]

\* a decoded media object together with the file_name argument of the call
NamedMedia ==
    {[kind |-> "media", media_type |-> t, mime_type |-> m, file_name |-> f,
      date |-> d, arg |-> a] :
        t \in KnownTypes, m \in MimeTypes, f \in MediaFileNames,
        d \in MediaDates, a \in ArgPaths}

NameInit ==
    /\ obj \in NamedMedia
    /\ fid = UnframedId
    /\ res = NotYet
    /\ DLIdle
    /\ UpIdle

\* file_name = file_name or data.file_name or "" ... "{}_{}_{}{}".format(...)
NameStep ==
    /\ res.err = "pending"
    /\ res' = Decoded(FileName(os_path_split(obj.arg).name, obj, obj.media_type, 1))
    /\ UNCHANGED <<obj, fid, dlVars, upVars>>

NameNext == NameStep

SpecName == NameInit /\ [][NameNext]_vars

PutFirst(q, n) == <<n>> \o q

PutNowhere(q, n) == q
PutTwice(q, n) == Append(Append(q, n), n)

\* self.download_queue.put(...)
Put(q, n) == Append(q, n)

\* how a call ended: a returned value or a raised exception
Pending == [how |-> "pending", value |-> NonePath, exc |-> ""]
Value(v) == [how |-> "return", value |-> v, exc |-> ""]
Raise(e) == [how |-> "raise", value |-> NonePath, exc |-> e]

\* a call that has to wait for the worker and the other callers to be idle
CanCallWhenQuiet(c) ==
    pc[c] = "idle" /\ current = 0 /\ \A d \in Callers : pc[d] # "put"

CanCall(c) == pc[c] = "idle"

\* a raise that comes only after the Event, the slot and the put
RaiseAfterPut(c, e) ==
    LET n == Len(packets) + 1 IN
    /\ pc' = [pc EXCEPT ![c] = "raised"]
    /\ ret' = [ret EXCEPT ![c] = Raise(e)]
    /\ packets' = Append(packets,
                         NewPacket(c, MediaObject(PhotoId, "", None),
                                   [dir |-> "", name |-> ""], n))
    /\ done' = Append(done, FALSE)
    /\ path' = Append(path, NewPath)
    /\ jstate' = Append(jstate, "Queued")
    /\ download_queue' = Put(download_queue, n)
    /\ UNCHANGED <<block, myjob>>

\* raise ValueError(error_message) / raise FileIdInvalid / raise ValueError(
\* "Unknown media type"): all before done = Event() and the put
RaiseBeforePut(c, e) ==
    /\ pc' = [pc EXCEPT ![c] = "raised"]
    /\ ret' = [ret EXCEPT ![c] = Raise(e)]
    /\ UNCHANGED <<block, myjob, download_queue, packets, done, path, jstate>>

\* download_media up to and including download_queue.put, or up to the raise
download_media(c, message, arg, b) ==
    /\ CanCall(c)
    /\ IF PreError(message) # "none"
       THEN RaiseBeforePut(c, PreError(message))
       ELSE LET n == Len(packets) + 1 IN
            /\ packets' = Append(packets, NewPacket(c, message, arg, n))
            /\ done' = Append(done, FALSE)
            /\ path' = Append(path, NewPath)
            /\ jstate' = Append(jstate, "Queued")
            /\ download_queue' = Put(download_queue, n)
            /\ myjob' = [myjob EXCEPT ![c] = n]
            /\ block' = [block EXCEPT ![c] = b]
            /\ pc' = [pc EXCEPT ![c] = "put"]
            /\ UNCHANGED ret
    /\ UNCHANGED <<current, chunks, stop, finished, cancel_flag, codecVars, upVars>>

WaitAnyDone(c) == block[c] => \E n \in 1..Len(done) : done[n]

\* if block: done.wait()
WaitDone(c) == block[c] => done[myjob[c]]

\* return path[0]
ReadPath(c) == path[myjob[c]]

Return(c) ==
    /\ pc[c] = "put"
    /\ WaitDone(c)
    /\ ret' = [ret EXCEPT ![c] = Value(ReadPath(c))]
    /\ pc' = [pc EXCEPT ![c] = "returned"]
    /\ UNCHANGED <<block, myjob, download_queue, packets, done, path, jstate,
                   current, chunks, stop, finished, cancel_flag, codecVars, upVars>>

(***************************************************************************)
(* The download worker: one consumer of the download queue                 *)
(***************************************************************************)
Terminal == {"Completed", "Failed", "Cancelled"}

FinalPath(n) == [is |-> "str", dir |-> packets[n].directory, file |-> packets[n].file_name]

Finish(n, state, result) ==
    /\ jstate' = [jstate EXCEPT ![n] = state]
    /\ path' = [path EXCEPT ![n] = result]
    /\ done' = [done EXCEPT ![n] = TRUE]
    /\ finished' = Append(finished, n)

\* packet = self.download_queue.get()
WorkerGet ==
    /\ current = 0
    /\ download_queue # <<>>
    /\ stop # "global"
    /\ current' = Head(download_queue)
    /\ download_queue' = Tail(download_queue)
    /\ jstate' = [jstate EXCEPT ![Head(download_queue)] = "InProgress"]
    /\ chunks' = 0
    /\ UNCHANGED <<pc, block, myjob, ret, packets, done, path, stop, finished,
                   cancel_flag, codecVars, upVars>>

\* a flag of any job taken as a cancellation of the job in flight
CancelRequestedAny == stop # "no" \/ cancel_flag # {}

\* what the worker sees at a chunk boundary: a stop, or the job's own flag
CancelRequested == stop # "no" \/ current \in cancel_flag

\* one chunk fetched, no cancellation seen at this chunk boundary
WorkerChunk ==
    /\ current # 0
    /\ ~CancelRequested
    /\ chunks < NumChunks
    /\ chunks' = chunks + 1
    /\ UNCHANGED <<pc, block, myjob, ret, download_queue, packets, done, path,
                   jstate, current, stop, finished, cancel_flag, codecVars, upVars>>

\* every chunk fetched: the file is moved to its final path
WorkerComplete ==
    /\ current # 0
    /\ ~CancelRequested
    /\ chunks = NumChunks
    /\ Finish(current, "Completed", FinalPath(current))
    /\ current' = 0
    /\ UNCHANGED <<pc, block, myjob, ret, download_queue, packets, chunks, stop,
                   cancel_flag, codecVars, upVars>>

\* the transfer fails: the result stays absent
WorkerFail ==
    /\ current # 0
    /\ ~CancelRequested
    /\ Finish(current, "Failed", path[current])
    /\ current' = 0
    /\ UNCHANGED <<pc, block, myjob, ret, download_queue, packets, chunks, stop,
                   cancel_flag, codecVars, upVars>>

\* cancellation seen at a chunk boundary: the job in flight is cancelled
WorkerCancel ==
    /\ current # 0
    /\ CancelRequested
    /\ Finish(current, "Cancelled", path[current])
    /\ current' = 0
    /\ stop' = IF stop = "job" THEN "no" ELSE stop
    /\ UNCHANGED <<pc, block, myjob, ret, download_queue, packets, chunks,
                   cancel_flag, codecVars, upVars>>

\* after a global stop the remaining jobs are taken off the queue one by one,
\* each to be cancelled at its first chunk boundary, before any chunk
WorkerDrain ==
    /\ current = 0
    /\ stop = "global"
    /\ download_queue # <<>>
    /\ current' = Head(download_queue)
    /\ download_queue' = Tail(download_queue)
    /\ jstate' = [jstate EXCEPT ![Head(download_queue)] = "InProgress"]
    /\ chunks' = 0
    /\ UNCHANGED <<pc, block, myjob, ret, packets, done, path, stop, finished,
                   cancel_flag, codecVars, upVars>>

\* the cancellation of one job that is still waiting on the queue
CancelQueued(n) ==
    /\ n \in 1..Len(jstate)
    /\ jstate[n] = "Queued"
    /\ n \notin cancel_flag
    /\ stop = "no"
    /\ cancel_flag' = cancel_flag \cup {n}
    /\ UNCHANGED <<pc, block, myjob, ret, download_queue, packets, done, path,
                   jstate, current, chunks, stop, finished, codecVars, upVars>>

\* stop_transmission while a job is in flight; global: the whole queue
StopTransmission(kind) ==
    /\ current # 0
    /\ stop = "no"
    /\ stop' = kind
    /\ UNCHANGED <<pc, block, myjob, ret, download_queue, packets, done, path,
                   jstate, current, chunks, finished, cancel_flag, codecVars, upVars>>

DLInit ==
    /\ obj = NoObject
    /\ fid = UnframedId
    /\ res = NotYet
    /\ pc = [c \in Callers |-> "idle"]
    /\ block = [c \in Callers |-> TRUE]
    /\ myjob = [c \in Callers |-> 0]
    /\ ret = [c \in Callers |-> Pending]
    /\ download_queue = <<>> /\ packets = <<>> /\ done = <<>> /\ path = <<>>
    /\ jstate = <<>> /\ current = 0 /\ chunks = 0 /\ stop = "no"
    /\ finished = <<>> /\ cancel_flag = {}
    /\ UpIdle

DLNext ==
    \/ \E c \in Callers, m \in Messages, a \in FileNameArgs, b \in BOOLEAN :
          download_media(c, m, a, b)
    \/ \E c \in Callers : Return(c)
    \/ WorkerGet
    \/ WorkerChunk
    \/ WorkerComplete
    \/ WorkerFail
    \/ WorkerCancel
    \/ WorkerDrain
    \/ \E n \in 1..NumCalls : CancelQueued(n)
    \/ \E k \in {"job", "global"} : StopTransmission(k)

SpecDL == DLInit /\ [][DLNext]_vars

\* the worker thread runs whenever it has a step to take
WorkerStep ==
    \/ WorkerGet \/ WorkerChunk \/ WorkerComplete \/ WorkerFail
    \/ WorkerCancel \/ WorkerDrain

\* the worker thread and every calling thread are scheduled fairly; done.wait()
\* has no timeout, so a caller moves on only by its Event being set
SpecDLFair ==
    /\ DLInit
    /\ [][DLNext]_vars
    /\ WF_vars(WorkerStep)
    /\ \A c \in Callers : WF_vars(Return(c))

(***************************************************************************)
(* send_video_note: the upload and the retry loop around the send          *)
(***************************************************************************)
NumUploads == 1
MaxSends == 2
NumParts == 2

\* the invocations of send_video_note, each by a thread of its own
Uploads == 1..NumUploads
Parts == 0..(NumParts - 1)

\* save_file gives every upload a file id of its own
FileSession(u) == u
ThumbSession(u) == NumUploads + u

NoFile == 0

NewCall == [pc |-> "idle", local |-> FALSE, thumb |-> FALSE, file |-> NoFile,
            x |-> 0, responses |-> <<>>, resent |-> <<>>, requests |-> 0,
            result |-> "pending", stopped |-> "", stopped_at |-> 0]

RaiseStopTransmission(r) == [r EXCEPT !.pc = "done", !.result = "raise StopTransmission"]

\* except BaseClient.StopTransmission: return None
ExceptStopTransmission(r) == [r EXCEPT !.pc = "done", !.result = "None"]

\* StopTransmission raised at the point where: the handler, and what it saw
Stopped(r, where) ==
    ExceptStopTransmission([r EXCEPT !.stopped = where, !.stopped_at = r.requests])

\* every exception leaving as one error class
PropagateAsRPCError(r, exc) == [r EXCEPT !.pc = "done", !.result = "raise RPCError"]

\* any other exception leaves send_video_note
Propagate(r, exc) == [r EXCEPT !.pc = "done", !.result = exc]

Issued(r) == [r EXCEPT !.requests = r.requests + 1]

\* os.path.exists(video_note): upload the file, or refer to a remote file id
Begin(u, exists, has_thumb) ==
    /\ up[u].pc = "idle"
    /\ up' = [up EXCEPT ![u] =
                 IF exists
                 THEN [@ EXCEPT !.local = TRUE, !.thumb = has_thumb,
                                !.pc = IF has_thumb THEN "thumb" ELSE "file"]
                 ELSE [@ EXCEPT !.pc = "send"]]
    /\ UNCHANGED <<codecVars, dlVars>>

\* thumb = self.save_file(thumb)
SaveThumb(u, outcome) ==
    /\ up[u].pc = "thumb"
    /\ up' = [up EXCEPT ![u] =
                 CASE outcome = "ok" -> [Issued(@) EXCEPT !.pc = "file"]
                   [] outcome = "stop" -> Stopped(Issued(@), "thumb")
                   [] outcome = "error" -> Propagate(Issued(@), "raise RPCError")]
    /\ UNCHANGED <<codecVars, dlVars>>

\* file = self.save_file(video_note, progress=progress, ...)
SaveFile(u, outcome) ==
    /\ up[u].pc = "file"
    /\ up' = [up EXCEPT ![u] =
                 CASE outcome = "ok" ->
                          [Issued(@) EXCEPT !.pc = "send", !.file = FileSession(u)]
                   [] outcome = "stop" -> Stopped(Issued(@), "file")
                   [] outcome = "error" -> Propagate(Issued(@), "raise RPCError")]
    /\ UNCHANGED <<codecVars, dlVars>>

\* the responses of self.send(functions.messages.SendMedia(...))
SendErrors == {"raise RPCError", "raise FloodWait"}

SendOutcomes ==
    {[kind |-> k, x |-> 0, exc |-> "none"] : k \in {"message", "no_message", "stop"}}
        \cup {[kind |-> "error", x |-> 0, exc |-> e] : e \in SendErrors}
        \cup {[kind |-> "FilePartMissing", x |-> i, exc |-> "none"] : i \in Parts}

\* for i in r.updates: the first new-message update is parsed and returned;
\* without one the for loop ends and the while loop goes round again
AfterResponse(r, updates_have_message) ==
    IF updates_have_message THEN [r EXCEPT !.pc = "done", !.result = "Message"]
    ELSE r

\* one pass of the while loop: the send and what follows its response
Send(u, o) ==
    /\ up[u].pc = "send"
    /\ Len(up[u].responses) < MaxSends
    /\ LET r == [Issued(up[u]) EXCEPT !.responses = Append(@, o)] IN
       up' = [up EXCEPT ![u] =
                 CASE o.kind = "message" -> AfterResponse(r, TRUE)
                   [] o.kind = "no_message" -> AfterResponse(r, FALSE)
                   [] o.kind = "FilePartMissing" -> [r EXCEPT !.pc = "resend", !.x = o.x]
                   [] o.kind = "stop" -> Stopped(r, "send")
                   [] o.kind = "error" -> Propagate(r, o.exc)]
    /\ UNCHANGED <<codecVars, dlVars>>

\* a resend under the session of the first call, whoever resends
ResendRequestOfFirst(file_id, file_part) ==
    [file_id |-> FileSession(1), file_part |-> file_part]

\* save_file(video_note, file_id=..., file_part=...): one chunk, one session
ResendRequest(file_id, file_part) == [file_id |-> file_id, file_part |-> file_part]

\* except FilePartMissing as e: self.save_file(video_note, file_id=file.id, file_part=e.x)
Resend(u, outcome) ==
    /\ up[u].pc = "resend"
    /\ up' = [up EXCEPT ![u] =
                 IF @.file = NoFile THEN Propagate(@, "raise AttributeError")
                 ELSE LET r == [Issued(@) EXCEPT
                                   !.resent = Append(@, ResendRequest(up[u].file, up[u].x))]
                      IN CASE outcome = "ok" -> [r EXCEPT !.pc = "send"]
                           [] outcome = "stop" -> Stopped(r, "resend")
                           [] outcome = "error" -> Propagate(r, "raise RPCError")]
    /\ UNCHANGED <<codecVars, dlVars>>

UpInit ==
    /\ obj = NoObject
    /\ fid = UnframedId
    /\ res = NotYet
    /\ DLIdle
    /\ up = [u \in Uploads |-> NewCall]

Outcomes == {"ok", "stop", "error"}

UpNext ==
    \/ \E u \in Uploads, e \in BOOLEAN, t \in BOOLEAN : Begin(u, e, t)
    \/ \E u \in Uploads, o \in Outcomes : SaveThumb(u, o)
    \/ \E u \in Uploads, o \in Outcomes : SaveFile(u, o)
    \/ \E u \in Uploads, o \in SendOutcomes : Send(u, o)
    \/ \E u \in Uploads, o \in Outcomes : Resend(u, o)

SpecUp == UpInit /\ [][UpNext]_vars

\* two threads inside send_video_note at the same time
ConcurrentCalls == {1, 2}

ConcurrentInit ==
    /\ obj = NoObject
    /\ fid = UnframedId
    /\ res = NotYet
    /\ DLIdle
    /\ up = [u \in ConcurrentCalls |-> NewCall]

ConcurrentNext ==
    \/ \E u \in ConcurrentCalls, e \in BOOLEAN, t \in BOOLEAN : Begin(u, e, t)
    \/ \E u \in ConcurrentCalls, o \in Outcomes : SaveThumb(u, o)
    \/ \E u \in ConcurrentCalls, o \in Outcomes : SaveFile(u, o)
    \/ \E u \in ConcurrentCalls, o \in SendOutcomes : Send(u, o)
    \/ \E u \in ConcurrentCalls, o \in Outcomes : Resend(u, o)

SpecUpConcurrent == ConcurrentInit /\ [][ConcurrentNext]_vars

(***************************************************************************)
(* Claims about the decode step                                            *)
(***************************************************************************)
\* the tag as the layouts declare it: the leading "<i" field
Tag32(b) == Int32LE(b, 0)

LayoutOfType(t) == IF t = 1 THEN "photo_like"
                   ELSE IF t \in ThumbTypes THEN "document_thumb"
                   ELSE "document_plain"

LayoutLen(t) == IF t = 1 THEN calcsize(FmtPhotoLike)
                ELSE IF t \in ThumbTypes THEN calcsize(FmtDocThumb)
                ELSE calcsize(FmtDocPlain)

DecodeRan == res.err # "pending"
HasTag == fid.framed /\ Len(fid.data) >= IntSize

\* C8: a blob is accepted only when its signed 32-bit little-endian tag is
\* one of the known tags, and then with the layout that tag selects; every
\* other 32-bit tag value is rejected.
C8_Tag32SelectsLayout ==
    (DecodeRan /\ HasTag /\ res.err = "none") =>
        /\ Tag32(fid.data) \in KnownTypes
        /\ res.data.layout = LayoutOfType(Tag32(fid.data))

\* C9: decoding a blob whose 32-bit tag is not a known tag always fails with
\* the unknown-media-type error, which carries the raw tag value.
C9_UnknownTagError ==
    (DecodeRan /\ HasTag /\ Tag32(fid.data) \notin KnownTypes) =>
        /\ res.err = "ValueError"
        /\ res.msg = "Unknown media type"
        /\ res.arg = "media_type"

\* a validly framed blob shorter than the layout of its tag, or empty
Truncated ==
    /\ fid.framed
    /\ \/ Len(fid.data) = 0
       \/ /\ Len(fid.data) >= IntSize
          /\ Tag32(fid.data) \in KnownTypes
          /\ Len(fid.data) < LayoutLen(Tag32(fid.data))

\* C10: decoding a blob shorter than the length of its tag's layout, the
\* empty blob included, always fails with FileIdInvalid.
C10_TruncatedIsInvalid ==
    (DecodeRan /\ Truncated) => res.err = "FileIdInvalid"

(***************************************************************************)
(* Claims about the download queue                                         *)
(***************************************************************************)
\* what the worker published for packet n: the path, or nothing
Published(n) == IF jstate[n] = "Completed" THEN FinalPath(n) ELSE NonePath

Returned(c) == pc[c] = "returned"

\* C1: a call with block=True has returned only if the Event of its own
\* packet is set and the packet is terminal, and what it returned is what the
\* worker published for that packet: the path when completed, None otherwise.
C1_BlockingReturnsOwnResult ==
    \A c \in Callers :
        (Returned(c) /\ block[c]) =>
            /\ done[myjob[c]]
            /\ jstate[myjob[c]] \in Terminal
            /\ ret[c].value = Published(myjob[c])

\* a blocking call returned the path of its packet while the other packet
\* was not yet terminal
C1_Witness ==
    \E c \in Callers :
        /\ Returned(c) /\ block[c]
        /\ jstate[myjob[c]] = "Completed" /\ ret[c].value = FinalPath(myjob[c])
        /\ \E n \in 1..Len(packets) : n # myjob[c] /\ ~done[n]

\* C4: packets become terminal in the order they were put on the queue, the
\* worker holds at most one packet at a time and it is older than every
\* queued one, and a blocking call gets the result of its own packet.
C4_FifoOrder ==
    /\ \A i, j \in 1..Len(finished) : i < j => finished[i] < finished[j]
    /\ \A i, j \in 1..Len(download_queue) :
          i < j => download_queue[i] < download_queue[j]
    /\ Cardinality({n \in 1..Len(packets) : jstate[n] = "InProgress"}) <= 1
    /\ \A i \in 1..Len(download_queue) :
          /\ current # 0 => current < download_queue[i]
          /\ \A k \in 1..Len(finished) : finished[k] < download_queue[i]
    /\ \A c \in Callers :
          (Returned(c) /\ block[c] /\ jstate[myjob[c]] = "Completed") =>
              ret[c].value = FinalPath(myjob[c])

\* every packet was queued, all became terminal in order, and the blocking
\* calls hold their results
C4_Witness ==
    /\ Len(packets) = NumCalls
    /\ Len(finished) = NumCalls
    /\ \A c \in Callers : Returned(c) /\ block[c] /\ ret[c].value = FinalPath(myjob[c])

\* C5: when the packet of a call was cancelled by the stop flag or failed,
\* its Event is set, so the blocked call is released, and the call returns
\* None; it never ends by raising.
C5_StoppedGivesNone ==
    \A c \in Callers :
        (myjob[c] # 0 /\ jstate[myjob[c]] \in {"Cancelled", "Failed"}) =>
            /\ done[myjob[c]]
            /\ pc[c] # "raised"
            /\ (pc[c] = "put" => WaitDone(c))
            /\ (Returned(c) /\ block[c] => ret[c].value = NonePath)

\* a blocked call released by a cancellation, and one released by a failure
C5_Witness ==
    /\ \E c \in Callers :
          Returned(c) /\ block[c] /\ jstate[myjob[c]] = "Cancelled" /\ ret[c].value = NonePath
    /\ \E c \in Callers :
          Returned(c) /\ block[c] /\ jstate[myjob[c]] = "Failed" /\ ret[c].value = NonePath

\* C7: once the worker has completed the packet of a call with block=False,
\* what the call gave its caller is the completion and the resulting path.
C7_NonBlockingObservesResult ==
    \A c \in Callers :
        (Returned(c) /\ ~block[c] /\ jstate[myjob[c]] = "Completed") =>
            ret[c].value = FinalPath(myjob[c])

(***************************************************************************)
(* Claims about the upload retry loop                                      *)
(***************************************************************************)
Succeeded(o) == o.kind \in {"message", "no_message"}

\* the FilePartMissing signals a call received, in order
RECURSIVE Signals(_)
Signals(rs) ==
    IF rs = <<>> THEN <<>>
    ELSE IF Head(rs).kind = "FilePartMissing" THEN <<Head(rs).x>> \o Signals(Tail(rs))
    ELSE Signals(Tail(rs))

\* the resends answer the signals one for one: chunk e.x, the upload's file id
ResendsMatchSignals(r) ==
    LET sig == Signals(r.responses) IN
    /\ Len(r.resent) <= Len(sig)
    /\ Len(sig) <= Len(r.resent) + 1
    /\ (Len(sig) = Len(r.resent) + 1 => r.pc = "resend")
    /\ \A k \in 1..Len(r.resent) :
          r.resent[k] = ResendRequest(r.file, sig[k])

\* C2: in an upload every FilePartMissing(i) is answered by exactly one
\* resend, of chunk i under the upload's file id, and no other chunk is
\* resent; when the first send raises FilePartMissing(i) and the second send
\* succeeds, chunk i was resent once and the second send ends the operation.
C2_ResendThenSecondSendCompletes ==
    \A u \in Uploads :
        up[u].local =>
            /\ ResendsMatchSignals(up[u])
            /\ (/\ Len(up[u].responses) >= 2
                /\ up[u].responses[1].kind = "FilePartMissing"
                /\ Succeeded(up[u].responses[2]))
               => /\ up[u].pc = "done"
                  /\ Len(up[u].responses) = 2
                  /\ Len(up[u].resent) = 1

\* C3: a send that succeeds is the last send of the call and ends the loop,
\* whatever its updates; every send before the last raised FilePartMissing.
C3_LoopEndsOnSuccess ==
    \A u \in Uploads :
        \A k \in 1..Len(up[u].responses) :
            /\ (k < Len(up[u].responses) => up[u].responses[k].kind = "FilePartMissing")
            /\ (Succeeded(up[u].responses[k]) =>
                    /\ k = Len(up[u].responses)
                    /\ up[u].pc = "done")

\* C6: once StopTransmission was raised, at whichever point, the call is
\* over, its result is None and not an exception, and it has issued no
\* request since.
C6_StopGivesNone ==
    \A u \in Uploads :
        up[u].stopped # "" =>
            /\ up[u].pc = "done"
            /\ up[u].result = "None"
            /\ up[u].requests = up[u].stopped_at

\* a call stopped during the resend of a chunk, after an upload with a thumb
C6_Witness ==
    \E u \in Uploads :
        /\ up[u].stopped = "resend"
        /\ up[u].thumb
        /\ Len(up[u].resent) = 1
        /\ up[u].result = "None"

(***************************************************************************)
(* Claims about the file ids this client encodes                           *)
(***************************************************************************)
RoundTripDone == obj.kind \in {"photo", "sticker"} /\ res.err # "pending"

\* C11: decoding the file id that Photo._parse (tag 2, thumb layout) or
\* Sticker._parse (tag 8, plain layout) encoded succeeds and gives back the
\* tag, dc_id, document id and access hash that were encoded, and for a photo
\* the character of its size type.
C11_DecodeOfEncode ==
    RoundTripDone =>
        /\ res.err = "none"
        /\ res.data.media_type = (IF obj.kind = "photo" THEN 2 ELSE 8)
        /\ res.data.layout = (IF obj.kind = "photo" THEN "document_thumb"
                              ELSE "document_plain")
        /\ res.data.dc_id = obj.dc_id
        /\ res.data.document_id = obj.id
        /\ res.data.access_hash = obj.access_hash
        /\ (obj.kind = "photo" => res.data.thumb_size = ord(obj.type))

\* a photo with a negative dc_id and a sticker, both decoded from their ids
C11_Witness ==
    /\ RoundTripDone
    /\ res.err = "none"
    /\ obj.dc_id = MinInt32
    /\ obj.kind = "photo" /\ obj.type = "y" /\ res.data.thumb_size = 121

(***************************************************************************)
(* Claims about the decoded fields                                         *)
(***************************************************************************)
\* the four bytes of the size_type field of a photo-like blob
SizeTypeBytes ==
    SubSeq(fid.data, FieldOffset(FmtPhotoLike, 6) + 1,
           FieldOffset(FmtPhotoLike, 6) + IntSize)

DecodedPhotoLike == res.err = "none" /\ res.data.layout = "photo_like"

\* C12: a photo-like identifier decodes with is_big true exactly when its
\* size_type field is the 32-bit value 3 (bytes 03 00 00 00), and with is_big
\* false for every other value of the field.
C12_IsBigIffSizeTypeThree ==
    DecodedPhotoLike => (res.data.is_big <=> SizeTypeBytes = <<3, 0, 0, 0>>)

\* a photo-like id decoded as big
C12_Witness ==
    /\ DecodedPhotoLike
    /\ res.data.media_type = 1
    /\ res.data.is_big
    /\ SizeTypeBytes = <<3, 0, 0, 0>>

(***************************************************************************)
(* Claims about the synthesized file name                                  *)
(***************************************************************************)
Named == obj.kind = "media" /\ res.err = "none"
Synthesized == Named /\ res.data.synth
ExtensionOf(file) == file.name[3]

\* the fixed default extension of each media kind
DefaultExtension(t) ==
    CASE t = 3 -> ".ogg" [] t \in {4, 10, 13} -> ".mp4" [] t = 5 -> ".zip"
      [] t = 8 -> ".webp" [] t = 9 -> ".mp3" [] OTHER -> ".jpg"

\* C13: a synthesized file name ends in .jpg for media types 0, 1, 2 and 14
\* whatever the MIME type; for every other media type it ends in the
\* extension guessed from the MIME type when there is one, and otherwise in
\* the fixed default of the media kind.
C13_SynthesizedExtension ==
    Synthesized =>
        ExtensionOf(res.data) =
            IF obj.media_type \in {0, 1, 2, 14} THEN ".jpg"
            ELSE IF guess_extension(obj.mime_type) # None
                 THEN guess_extension(obj.mime_type)
            ELSE DefaultExtension(obj.media_type)

\* a photo with a video MIME type named .jpg
C13_Witness ==
    /\ Synthesized
    /\ obj.media_type = 2
    /\ obj.mime_type = "video/mp4"
    /\ ExtensionOf(res.data) = ".jpg"

(***************************************************************************)
(* Claims about errors of the send                                         *)
(***************************************************************************)
\* the send of upload u has raised an error that is neither FilePartMissing
\* nor StopTransmission
SendFailed(u) ==
    \E i \in 1..Len(up[u].responses) : up[u].responses[i].kind = "error"

\* C14: when the send raises an error other than FilePartMissing and
\* StopTransmission, that response is the last one of the call, the call is
\* over with exactly that error as its outcome, and from then on nothing of
\* the call changes: no chunk is resent and no further send is issued.
C14_SendErrorPropagates ==
    /\ [](\A u \in Uploads :
            \A i \in 1..Len(up[u].responses) :
                up[u].responses[i].kind = "error" =>
                    /\ i = Len(up[u].responses)
                    /\ up[u].pc = "done"
                    /\ up[u].result = up[u].responses[i].exc)
    /\ [][\A u \in Uploads : SendFailed(u) => up'[u] = up[u]]_vars

\* a send that failed with FloodWait after one chunk had been resent
C14_Witness ==
    \E u \in Uploads :
        /\ SendFailed(u)
        /\ Len(up[u].resent) = 1
        /\ Len(up[u].responses) = 2
        /\ up[u].result = "raise FloodWait"

(***************************************************************************)
(* Claims about the cancellation of a queued job                           *)
(***************************************************************************)
Jobs == 1..Len(packets)

\* job k was cancelled while it was still on the queue
CancelledBeforeStart(k) == k \in cancel_flag /\ jstate[k] = "Cancelled"

\* job n is left as it is by the step
JobUntouched(n) ==
    /\ jstate'[n] = jstate[n]
    /\ path'[n] = path[n]
    /\ done'[n] = done[n]
    /\ packets'[n] = packets[n]

\* C15: cancelling job K while it is queued touches no other job: asking for
\* the cancellation changes no job at all, the step that ends K as Cancelled
\* changes only K and leaves the queue as it is, no job without a flag of
\* its own is ended as Cancelled unless a stop was requested while it was in
\* flight, and a job that completed next to a cancelled one has published
\* its own path, which a blocking caller of that job returns.
C15_CancelQueuedJobIsJobScoped ==
    /\ [][\A k \in Jobs :
            /\ (k \in cancel_flag' /\ k \notin cancel_flag) =>
                   /\ \A n \in Jobs : JobUntouched(n)
                   /\ download_queue' = download_queue /\ current' = current
            /\ (k \in cancel_flag /\ jstate[k] # "Cancelled" /\ jstate'[k] = "Cancelled") =>
                   /\ \A n \in Jobs \ {k} : JobUntouched(n)
                   /\ download_queue' = download_queue
                   /\ path'[k] = NonePath /\ done'[k]
            /\ (jstate[k] # "Cancelled" /\ jstate'[k] = "Cancelled") =>
                   (k \in cancel_flag \/ stop # "no")]_vars
    /\ [](\A k \in Jobs : \A n \in Jobs \ {k} :
            (CancelledBeforeStart(k) /\ jstate[n] = "Completed") =>
                /\ done[n] /\ path[n] = FinalPath(n)
                /\ \A c \in Callers :
                       (myjob[c] = n /\ block[c] /\ pc[c] = "returned") =>
                           ret[c] = Value(FinalPath(n)))

\* job 1 cancelled while queued behind nothing, job 2 enqueued after it
\* completed and returned to its blocking caller
C15_Witness ==
    /\ Len(packets) = 2
    /\ CancelledBeforeStart(1)
    /\ jstate[2] = "Completed"
    /\ \E c \in Callers :
           /\ myjob[c] = 2 /\ block[c] /\ pc[c] = "returned"
           /\ ret[c] = Value(FinalPath(2))
    /\ \E c \in Callers :
           /\ myjob[c] = 1 /\ block[c] /\ pc[c] = "returned"
           /\ ret[c] = Value(NonePath)

(***************************************************************************)
(* Claims about termination of the download jobs                           *)
(***************************************************************************)
\* C16: under fair scheduling of the worker and of the callers, every job
\* that was put on the queue eventually is in a terminal state with its Event
\* set, also when a global stop was requested, and every blocking call that
\* put a job eventually returns; a blocking call returns only once the Event
\* of its own job is set, there being no timeout that would end the wait.
C16_EveryJobEndsAndBlockingCallsReturn ==
    /\ \A n \in 1..NumCalls :
           (Len(packets) >= n) ~>
               (Len(packets) >= n /\ jstate[n] \in Terminal /\ done[n])
    /\ \A c \in Callers :
           (pc[c] = "put" /\ block[c]) ~> (pc[c] = "returned")
    /\ [](\A c \in Callers :
              (pc[c] = "returned" /\ block[c]) => done[myjob[c]])

\* after a global stop a job that was still queued is cancelled with its
\* Event set, and its blocking caller has returned None
C16_Witness ==
    /\ stop = "global"
    /\ Len(packets) = 2
    /\ jstate[1] = "Cancelled" /\ jstate[2] = "Cancelled"
    /\ done[2]
    /\ \E c \in Callers :
           /\ myjob[c] = 2 /\ block[c] /\ pc[c] = "returned"
           /\ ret[c] = Value(NonePath)

(***************************************************************************)
(* Claims about the life of a download job                                 *)
(***************************************************************************)
Occurrences(seq, n) == Cardinality({i \in DOMAIN seq : seq[i] = n})

\* the calls that got past download_queue.put
Enqueuers == {c \in Callers : pc[c] \in {"put", "returned"}}

\* where job n is: on the queue, with the worker, or among the finished
Holders(n) ==
    Occurrences(download_queue, n) + (IF current = n THEN 1 ELSE 0)
        + Occurrences(finished, n)

\* C17: every call that got past the put has exactly one job of its own, with
\* an Event and a path slot of its own that start unset and empty; the job is
\* at exactly one place (on the queue once, with the worker, or finished)
\* and its state says which; a job changes state only from Queued to
\* InProgress and from InProgress to Completed, Failed or Cancelled, and a
\* job that left the queue is never on it again.
C17_OneJobPerCallAndItsLifecycle ==
    /\ [](/\ Len(done) = Len(packets) /\ Len(path) = Len(packets)
          /\ Len(jstate) = Len(packets)
          /\ Cardinality(Enqueuers) = Len(packets)
          /\ \A c \in Enqueuers :
                 myjob[c] \in Jobs /\ packets[myjob[c]].caller = c
          /\ \A c \in Callers \ Enqueuers : myjob[c] = 0
          /\ \A n \in Jobs :
                 /\ Holders(n) = 1
                 /\ jstate[n] = "Queued" <=> Occurrences(download_queue, n) = 1
                 /\ jstate[n] = "InProgress" <=> current = n
                 /\ jstate[n] \in Terminal <=> Occurrences(finished, n) = 1)
    /\ [][/\ \A n \in Jobs :
                /\ jstate'[n] # jstate[n] =>
                       \/ jstate[n] = "Queued" /\ jstate'[n] = "InProgress"
                       \/ jstate[n] = "InProgress" /\ jstate'[n] \in Terminal
                /\ Occurrences(download_queue, n) = 0 =>
                       Occurrences(download_queue', n) = 0
                /\ packets'[n] = packets[n]
          /\ Len(packets') # Len(packets) =>
                /\ Len(packets') = Len(packets) + 1
                /\ ~done'[Len(packets')]
                /\ path'[Len(packets')] = NonePath
                /\ jstate'[Len(packets')] = "Queued"
                /\ download_queue' = Append(download_queue, Len(packets'))]_vars

\* two calls with a job each, one finished and one still queued
C17_Witness ==
    /\ Cardinality(Enqueuers) = 2
    /\ Len(packets) = 2
    /\ jstate[1] \in Terminal
    /\ jstate[2] = "Queued"
    /\ \A c \in Callers : packets[myjob[c]].caller = c

(***************************************************************************)
(* Claims about the enqueue step                                           *)
(***************************************************************************)
\* the call of c with a valid media object gets its packet on the queue
Enqueue(c, b) ==
    /\ download_media(c, MediaObject(PhotoId, "", None), [dir |-> "", name |-> ""], b)
    /\ Len(download_queue') = Len(download_queue) + 1

\* C18: a caller that has not called yet can always get its packet on the
\* queue at once, whatever the worker holds, whatever is queued and whoever
\* is waiting: the step is enabled in every state.
C18_EnqueueNeverBlocks ==
    \A c \in Callers :
        pc[c] = "idle" => \A b \in BOOLEAN : ENABLED Enqueue(c, b)

\* job 2 was put on the queue by one caller while job 1, still in progress,
\* had its caller waiting
C18_Witness ==
    /\ Len(packets) = 2
    /\ current = 1 /\ jstate[1] = "InProgress"
    /\ jstate[2] = "Queued" /\ download_queue = <<2>>
    /\ \E c, d \in Callers :
           /\ c # d
           /\ myjob[c] = 1 /\ block[c] /\ pc[c] = "put"
           /\ myjob[d] = 2 /\ pc[d] \in {"put", "returned"}

(***************************************************************************)
(* Claims about the errors of the decode step                              *)
(***************************************************************************)
DecodeFailed == DecodeRan /\ res.err # "none"
UnknownTagFailure == res.err = "ValueError" /\ res.msg = "Unknown media type"

\* C19: every failure of the decode step other than the unknown media type
\* (bad framing, wrong length, a thumb size that is no character code) is
\* raised as FileIdInvalid; stated here for the blobs that have a first
\* byte, the empty blob being the case of C10.
C19_DecodeFailuresAreFileIdInvalid ==
    (DecodeFailed /\ ~UnknownTagFailure /\ Len(fid.data) > 0) =>
        res.err = "FileIdInvalid"

(***************************************************************************)
(* Claims about a call that fails before the put                           *)
(***************************************************************************)
FailedBeforePut(c) == pc[c] = "raised"

\* C20: a download_media call that raises before the put (no media in the
\* message, an invalid file id, an unknown media type) leaves the queue, the
\* packets, the Events and the path slots exactly as they were and the
\* worker undisturbed; the call has ended with the exception, it owns no
\* job, and no packet names it as its caller.
C20_FailureBeforePutLeavesQueue ==
    /\ [][\A c \in Callers :
            (pc[c] = "idle" /\ pc'[c] = "raised") =>
                /\ download_queue' = download_queue
                /\ packets' = packets
                /\ done' = done /\ path' = path /\ jstate' = jstate
                /\ current' = current /\ finished' = finished]_vars
    /\ [](\A c \in Callers :
            FailedBeforePut(c) =>
                /\ ret[c].how = "raise"
                /\ myjob[c] = 0
                /\ \A n \in Jobs : packets[n].caller # c
                /\ Len(done) = Cardinality(Enqueuers))

\* one call raised FileIdInvalid while the job of the other call, put before
\* it, is still the only one on the queue
C20_Witness ==
    /\ \E c \in Callers :
           FailedBeforePut(c) /\ ret[c] = Raise("FileIdInvalid")
    /\ Len(packets) = 1 /\ Len(done) = 1
    /\ download_queue = <<1>>
    /\ jstate[1] = "Queued"

(***************************************************************************)
(* Claims about concurrent uploads                                         *)
(***************************************************************************)
Calls == DOMAIN up

\* C21: with two send_video_note calls running at once, every resend of a
\* call carries the file id that the call's own upload returned and the part
\* of one of the call's own FilePartMissing signals, never the file id of
\* the other call; a call that referred to a remote file id resends nothing;
\* and a step of one call leaves the record of the other call as it is.
C21_ConcurrentCallsShareNoUploadState ==
    /\ [](\A u \in Calls :
            /\ ~up[u].local => (up[u].resent = <<>> /\ up[u].file = NoFile)
            /\ Len(up[u].resent) <= Len(Signals(up[u].responses))
            /\ \A k \in 1..Len(up[u].resent) :
                   /\ up[u].resent[k].file_id = up[u].file
                   /\ up[u].resent[k].file_part = Signals(up[u].responses)[k]
                   /\ \A v \in Calls \ {u} :
                          up[v].file # NoFile =>
                              up[u].resent[k].file_id # up[v].file)
    /\ [][\A u \in Calls :
            up'[u] # up[u] => \A v \in Calls \ {u} : up'[v] = up[v]]_vars

\* both calls uploaded, each was told of a different missing part, and each
\* resent its part under its own file id while the other was still running
C21_Witness ==
    /\ Calls = ConcurrentCalls
    /\ up[1].file # NoFile /\ up[2].file # NoFile /\ up[1].file # up[2].file
    /\ up[1].resent = <<ResendRequest(up[1].file, 0)>>
    /\ up[2].resent = <<ResendRequest(up[2].file, 1)>>
    /\ up[1].pc = "send" /\ up[2].pc = "send"

(***************************************************************************)
(* Claims about the length of the blob                                     *)
(***************************************************************************)
\* the length in bytes the claim states for each media type
StatedLength(t) ==
    IF t = 1 THEN 56 ELSE IF t \in {0, 2, 14} THEN 48 ELSE 24

\* a validly framed blob whose media type (its first byte, and so also every
\* blob whose 32-bit tag is a known one) is known
HasKnownType ==
    /\ fid.framed
    /\ Len(fid.data) >= 1
    /\ MediaTypeOf(fid.data) \in KnownTypes

\* C22: a blob of a known media type is decoded only when it has exactly
\* the length of that type's layout (56, 48 or 24 bytes); with any other
\* length, longer ones included, the decode raises FileIdInvalid.
C22_ExactLengthOnly ==
    (DecodeRan /\ HasKnownType) =>
        /\ res.err = "none" =>
               Len(fid.data) = StatedLength(MediaTypeOf(fid.data))
        /\ Len(fid.data) # StatedLength(MediaTypeOf(fid.data)) =>
               res.err = "FileIdInvalid"

\* a plain-document blob one byte longer than its layout, rejected
C22_Witness ==
    /\ DecodeRan /\ HasKnownType
    /\ MediaTypeOf(fid.data) = 8
    /\ Len(fid.data) = StatedLength(8) + 1
    /\ Tag32(fid.data) = 8
    /\ res.err = "FileIdInvalid"

(***************************************************************************)
(* Claims about the precedence of file names                               *)
(***************************************************************************)
\* what the caller's argument has after its last "/", and whether the caller
\* or the media object supplies a name
CallerName == obj.arg[Len(obj.arg)]
CallerNames == CallerName # ""
MediaNames == obj.file_name # None /\ obj.file_name # ""

\* C23: the file name is the one in the caller's file_name argument when it
\* has one, else the one of the media object when it has one, else a
\* synthesized name; it is synthesized exactly when neither has one.
C23_FileNamePrecedence ==
    Named =>
        /\ CallerNames =>
               res.data.name = GivenName(CallerName) /\ ~res.data.synth
        /\ (~CallerNames /\ MediaNames) =>
               res.data.name = GivenName(obj.file_name) /\ ~res.data.synth
        /\ res.data.synth <=> (~CallerNames /\ ~MediaNames)

\* the caller's name chosen although the media object has one too
C23_Witness ==
    /\ Named
    /\ obj.arg = <<"dir", "given.bin">>
    /\ obj.file_name = "song.mp3"
    /\ res.data.name = GivenName("given.bin")
    /\ ~res.data.synth

====
